---- MODULE Spec2Model ----
(***************************************************************************)
(* Model of storage.py: the Storage contract and its two implementations,  *)
(* RedisStorage (a Redis server reached through redis-py) and              *)
(* InMemoryStorage (a dict of dicts).                                      *)
(*                                                                         *)
(* Spec drives both backends with the same sequential series of contract   *)
(* calls, starting from fresh stores, and records what each call returned  *)
(* or raised.  SpecConc runs concurrent callers against the Redis backend. *)
(***************************************************************************)
EXTENDS Integers, Sequences, FiniteSets, TLC

\* ------------------------------------------------------------------ bounds
\* Largest amount passed to an add operation.
MaxNum == 1
\* Adds are explored while the running total stays in -MaxDebt..MaxTotal.
MaxTotal == 2
MaxDebt == 1
\* SpecConc: number of concurrent callers and calls made by each.
NumCallers == 3
CallsEach == 2
\* SpecMem: number of concurrent threads and adds made by each.
NumThreads == 2
AddsEach == 2
\* SpecCmd: number of concurrent clients of the Redis server.
NumClients == 2

\* ------------------------------------------------------------- the inputs
\* user_id: str.  The ids are those of the scenarios.
Users == {"alice", "bob"}
\* num: int.  The code accepts any int, negative ones included.
Amounts == 0..MaxNum
NegAmounts == {-1}
Callers == 1..NumCallers
Threads == 1..NumThreads
Clients == 1..NumClients

\* ------------------------------------------------------ class attributes
POINTS_USED == "POINTS_USED"
POINTS_RECEIVED == "POINTS_RECEIVED"
USERS_LIST_KEY == "USERS_LIST"
Fields == {POINTS_USED, POINTS_RECEIVED}

\* ---------------------------------------------------------- Python values
\* What a call hands back to its caller: a value, or a raised exception.
PyInt(n) == [kind |-> "int", val |-> n]
PyBool(b) == [kind |-> "bool", val |-> b]
PyBytes(s) == [kind |-> "bytes", val |-> s]
PyList(l) == [kind |-> "list", val |-> l]
PyNone == [kind |-> "None", val |-> 0]
Raise(exc) == [kind |-> "raise", val |-> exc]
\* No call has been made yet.
NoCall == [kind |-> "nocall", val |-> 0]

Raised(r) == r.kind = "raise"

\* bool(v) for the values a contract call returns.
Truthy(r) ==
    CASE r.kind = "bool" -> r.val
      [] r.kind = "int" -> r.val # 0
      [] r.kind = "list" -> Len(r.val) > 0
      [] OTHER -> FALSE

\* A dict with no keys, and d[k] = v on a dict.
EmptyDict == [k \in {} |-> 0]
DictSet(d, k, v) == [x \in (DOMAIN d) \cup {k} |-> IF x = k THEN v ELSE d[x]]

\* ------------------------------------------- decimal strings of integers
\* Redis keeps a hash field as a string; redis-py hands it back as bytes.
Digits == <<"0", "1", "2", "3", "4", "5", "6", "7", "8", "9">>

RECURSIVE NatStr(_)
NatStr(n) ==
    IF n < 10 THEN <<Digits[n + 1]>>
    ELSE NatStr(n \div 10) \o <<Digits[(n % 10) + 1]>>

\* str(n)
IntStr(n) == IF n < 0 THEN <<"-">> \o NatStr(-n) ELSE NatStr(n)

IsDigit(c) == \E i \in 1..10 : Digits[i] = c
DigitVal(c) == (CHOOSE i \in 1..10 : Digits[i] = c) - 1

RECURSIVE NatVal(_)
NatVal(s) ==
    IF Len(s) = 0 THEN 0
    ELSE NatVal(SubSeq(s, 1, Len(s) - 1)) * 10 + DigitVal(s[Len(s)])

IsNatStr(s) == Len(s) > 0 /\ \A i \in 1..Len(s) : IsDigit(s[i])
IsIntStr(s) ==
    \/ IsNatStr(s)
    \/ Len(s) > 1 /\ s[1] = "-" /\ IsNatStr(Tail(s))
IntVal(s) == IF s[1] = "-" THEN -NatVal(Tail(s)) ELSE NatVal(s)

\* int(x) on what hget returns: bytes of a decimal string, or None.
py_int(x) ==
    CASE x.kind = "None" -> Raise("TypeError")
      [] x.kind = "bytes" ->
            IF IsIntStr(x.val) THEN PyInt(IntVal(x.val)) ELSE Raise("ValueError")
      [] x.kind = "int" -> x
      [] OTHER -> Raise("TypeError")

\* ------------------------------------------------------------------ state
VARIABLES
    redis,        \* RedisStorage._redis: the server's keyspace, hashes and sets
    data,         \* InMemoryStorage._data
    op,           \* the contract operation called last
    arg_user,     \* its user_id ("" when it takes none)
    arg_num,      \* its num (0 when it takes none)
    ret_redis,    \* what RedisStorage returned or raised for it
    ret_mem,      \* what InMemoryStorage returned or raised for it
    sum_added,    \* history: per user and field, the sum of the amounts added
    written,      \* history: per user, the fields an add was applied to
    neg_added,    \* history: some add was given a negative amount
    target,       \* SpecConc: the user every caller increments
    pc,           \* SpecConc: per caller, "ready", "sent", "replied", "done"
    calls_done,   \* SpecConc: per caller, the calls that have returned
    locals,       \* per caller, the local variables of its call in progress
    overlapped    \* history: two calls were between their read and write

store_vars == <<redis, data>>
call_vars == <<op, arg_user, arg_num, ret_redis, ret_mem>>
hist_vars == <<sum_added, written, neg_added>>
conc_vars == <<target, pc, calls_done, locals, overlapped>>
vars == <<redis, data, op, arg_user, arg_num, ret_redis, ret_mem,
          sum_added, written, neg_added, target, pc, calls_done,
          locals, overlapped>>

\* ------------------------------------------------------- the Redis server
\* The commands the code sends, each executed atomically by the server.
\* db.hash maps a key to the fields of its hash, db.set a key to its members.
\* A key exists once it holds something.
HGET(db, key, field) ==
    IF key \in DOMAIN db.hash /\ field \in DOMAIN db.hash[key]
    THEN PyBytes(db.hash[key][field])
    ELSE PyNone

\* An absent key or field counts as 0; the new value is stored as a string.
HINCRBY(db, key, field, num) ==
    LET h == IF key \in DOMAIN db.hash THEN db.hash[key] ELSE EmptyDict
        old == IF field \in DOMAIN h THEN IntVal(h[field]) ELSE 0
    IN [db EXCEPT !.hash = DictSet(db.hash, key, DictSet(h, field, IntStr(old + num)))]

HMSET(db, key, mapping) ==
    LET h == IF key \in DOMAIN db.hash THEN db.hash[key] ELSE EmptyDict
    IN [db EXCEPT !.hash = DictSet(db.hash, key,
            [f \in (DOMAIN h) \cup (DOMAIN mapping) |->
                IF f \in DOMAIN mapping THEN IntStr(mapping[f]) ELSE h[f]])]

SADD(db, key, member) ==
    LET s == IF key \in DOMAIN db.set THEN db.set[key] ELSE {}
    IN [db EXCEPT !.set = DictSet(db.set, key, s \cup {member})]

SMEMBERS(db, key) == IF key \in DOMAIN db.set THEN db.set[key] ELSE {}

\* The number of the given keys that exist.
EXISTS(db, key) ==
    IF key \in DOMAIN db.hash \/ key \in DOMAIN db.set THEN 1 ELSE 0

\* A list built by iterating a collection: one element per member, in the
\* collection's iteration order, which the contract leaves unspecified.
RECURSIVE ListOf(_, _)
ListOf(S, f) ==
    IF S = {} THEN <<>>
    ELSE LET x == CHOOSE y \in S : TRUE
         IN <<<<x, f[x]>>>> \o ListOf(S \ {x}, f)

\* The entries of a returned list that are for user u.
EntriesFor(l, u) == {i \in 1..Len(l) : l[i][1] = u}

\* ----------------------------------------------------------- RedisStorage
\* A method is given as the outcome of calling it in the current state:
\* ret, what it returns or raises, and db, the keyspace it leaves behind.
ROut(r, d) == [ret |-> r, db |-> d]

\* _create_user_entry: no method of the class calls it.
RedisStorage_create_user_entry(user_id) ==
    ROut(PyNone,
         SADD(HMSET(redis, user_id,
                    [f \in {POINTS_USED, POINTS_RECEIVED} |-> 0]),
              USERS_LIST_KEY, user_id))

RedisStorage_user_exists(user_id) ==
    ROut(PyInt(EXISTS(redis, user_id)), redis)

\* Mutant: the counter is read by incrementing it by 0, which creates it.
RedisStorage_get_user_points_used_hincrby(user_id) ==
    LET db == HINCRBY(redis, user_id, POINTS_USED, 0)
    IN ROut(py_int(HGET(db, user_id, POINTS_USED)), db)

RedisStorage_get_user_points_used(user_id) ==
    ROut(py_int(HGET(redis, user_id, POINTS_USED)), redis)

\* Mutant: the counter is set (hset) where the code increments it.
RedisStorage_add_user_points_used_hset(user_id, num) ==
    LET h == IF user_id \in DOMAIN redis.hash THEN redis.hash[user_id]
             ELSE EmptyDict
    IN ROut(PyNone,
            [redis EXCEPT !.hash =
                DictSet(redis.hash, user_id,
                        DictSet(h, POINTS_USED, IntStr(num)))])

RedisStorage_add_user_points_used(user_id, num) ==
    ROut(PyNone, HINCRBY(redis, user_id, POINTS_USED, num))

\* The value get_user_points_received returns on keyspace db.
RedisStorage_get_user_points_received_on(db, user_id) ==
    py_int(HGET(db, user_id, POINTS_RECEIVED))

RedisStorage_get_user_points_received(user_id) ==
    ROut(RedisStorage_get_user_points_received_on(redis, user_id), redis)

\* Mutant: the amount is subtracted.
RedisStorage_add_user_points_received_minus(user_id, num) ==
    ROut(PyNone, HINCRBY(redis, user_id, POINTS_RECEIVED, -num))

\* The keyspace add_user_points_received leaves when called on keyspace db.
RedisStorage_add_user_points_received_on(db, user_id, num) ==
    HINCRBY(db, user_id, POINTS_RECEIVED, num)

RedisStorage_add_user_points_received(user_id, num) ==
    ROut(PyNone, RedisStorage_add_user_points_received_on(redis, user_id, num))

\* The comprehension raises as soon as one read raises.
RedisStorage_get_users_and_scores ==
    LET users == SMEMBERS(redis, USERS_LIST_KEY)
        score == [user \in users |->
                    RedisStorage_get_user_points_received(user).ret]
    IN IF \E user \in users : Raised(score[user])
       THEN ROut(score[CHOOSE user \in users : Raised(score[user])], redis)
       ELSE ROut(PyList(ListOf(users, [user \in users |-> score[user].val])),
                 redis)

\* -------------------------------------------------------- InMemoryStorage
\* As above: ret, and d, the _data the call leaves behind.
MOut(r, d) == [ret |-> r, data |-> d]

\* dict.get(key, default)
dict_get(d, key, default) == IF key \in DOMAIN d THEN d[key] ELSE default

\* dict.setdefault(key, default): the dict afterwards.
dict_setdefault(d, key, default) ==
    IF key \in DOMAIN d THEN d ELSE DictSet(d, key, default)

InMemoryStorage_user_exists(user_id) ==
    MOut(PyBool(user_id \in DOMAIN data), data)

\* Mutant: a missing user reads as 0, its record being created on the way
\* (setdefault where the code indexes).
InMemoryStorage_get_user_points_used_setdefault(user_id) ==
    LET d == dict_setdefault(data, user_id, EmptyDict)
    IN MOut(PyInt(dict_get(d[user_id], POINTS_USED, 0)), d)

\* self._data[user_id] raises KeyError for a missing key.
InMemoryStorage_get_user_points_used(user_id) ==
    IF user_id \notin DOMAIN data THEN MOut(Raise("KeyError"), data)
    ELSE MOut(PyInt(dict_get(data[user_id], POINTS_USED, 0)), data)

\* Mutant: the counter is overwritten with num.
InMemoryStorage_add_user_points_used_overwrite(user_id, num) ==
    LET d == dict_setdefault(data, user_id, EmptyDict)
    IN MOut(PyNone, DictSet(d, user_id, DictSet(d[user_id], POINTS_USED, num)))

\* Mutant: the amount goes to the other counter.
InMemoryStorage_add_user_points_used_received(user_id, num) ==
    LET d == dict_setdefault(data, user_id, EmptyDict)
        user_data == d[user_id]
    IN MOut(PyNone,
            DictSet(d, user_id,
                    DictSet(user_data, POINTS_RECEIVED,
                            dict_get(user_data, POINTS_RECEIVED, 0) + num)))

\* user_data is the record held in _data: the assignment writes through it.
InMemoryStorage_add_user_points_used(user_id, num) ==
    LET d == dict_setdefault(data, user_id, EmptyDict)
        user_data == d[user_id]
    IN MOut(PyNone,
            DictSet(d, user_id,
                    DictSet(user_data, POINTS_USED,
                            dict_get(user_data, POINTS_USED, 0) + num)))

\* Mutant: a missing user reads as 0, its record being created on the way.
InMemoryStorage_get_user_points_received_setdefault(user_id) ==
    LET d == dict_setdefault(data, user_id, EmptyDict)
    IN MOut(PyInt(dict_get(d[user_id], POINTS_RECEIVED, 0)), d)

\* The value get_user_points_received returns when _data is d0.
InMemoryStorage_get_user_points_received_on(d0, user_id) ==
    IF user_id \notin DOMAIN d0 THEN Raise("KeyError")
    ELSE PyInt(dict_get(d0[user_id], POINTS_RECEIVED, 0))

InMemoryStorage_get_user_points_received(user_id) ==
    MOut(InMemoryStorage_get_user_points_received_on(data, user_id), data)

\* Mutant: the counter is overwritten with num.
InMemoryStorage_add_user_points_received_overwrite(d0, user_id, num) ==
    LET d == dict_setdefault(d0, user_id, EmptyDict)
    IN DictSet(d, user_id, DictSet(d[user_id], POINTS_RECEIVED, num))

\* The _data add_user_points_received leaves when called with _data = d0.
InMemoryStorage_add_user_points_received_on(d0, user_id, num) ==
    LET d == dict_setdefault(d0, user_id, EmptyDict)
        user_data == d[user_id]
    IN DictSet(d, user_id,
               DictSet(user_data, POINTS_RECEIVED,
                       dict_get(user_data, POINTS_RECEIVED, 0) + num))

InMemoryStorage_add_user_points_received(user_id, num) ==
    MOut(PyNone, InMemoryStorage_add_user_points_received_on(data, user_id, num))

\* Mutant: a record without the field is listed with 0 (get with a default).
InMemoryStorage_get_users_and_scores_default ==
    MOut(PyList(ListOf(DOMAIN data,
                       [k \in DOMAIN data |->
                            dict_get(data[k], POINTS_RECEIVED, 0)])),
         data)

\* Mutant: the used-points field is listed.
InMemoryStorage_get_users_and_scores_used ==
    IF \E k \in DOMAIN data : POINTS_USED \notin DOMAIN data[k]
    THEN MOut(Raise("KeyError"), data)
    ELSE MOut(PyList(ListOf(DOMAIN data,
                            [k \in DOMAIN data |-> data[k][POINTS_USED]])),
              data)

\* v[self.POINTS_RECEIVED] raises KeyError for a record without the field.
InMemoryStorage_get_users_and_scores ==
    IF \E k \in DOMAIN data : POINTS_RECEIVED \notin DOMAIN data[k]
    THEN MOut(Raise("KeyError"), data)
    ELSE MOut(PyList(ListOf(DOMAIN data,
                            [k \in DOMAIN data |-> data[k][POINTS_RECEIVED]])),
              data)

\* The counters as the stores hold them; an absent record or field counts 0.
RedisCounter(u, f) ==
    IF u \in DOMAIN redis.hash /\ f \in DOMAIN redis.hash[u]
    THEN IntVal(redis.hash[u][f]) ELSE 0
MemCounter(u, f) ==
    IF u \in DOMAIN data /\ f \in DOMAIN data[u] THEN data[u][f] ELSE 0

\* ------------------------------------------------------------- the stores
\* Fresh stores: RedisStorage.__init__ connects to an empty server,
\* InMemoryStorage.__init__ sets _data to dict().
FreshStores ==
    /\ redis = [hash |-> EmptyDict, set |-> EmptyDict]
    /\ data = EmptyDict

NoHistory ==
    /\ sum_added = [u \in Users |-> [f \in Fields |-> 0]]
    /\ written = [u \in Users |-> {}]
    /\ neg_added = FALSE

Init ==
    /\ FreshStores
    /\ NoHistory
    /\ op = "none" /\ arg_user = "" /\ arg_num = 0
    /\ ret_redis = NoCall /\ ret_mem = NoCall
    /\ target = "" /\ pc = [c \in Callers |-> "idle"]
    /\ calls_done = [c \in Callers |-> 0]
    /\ locals = [c \in Callers |-> 0]
    /\ overlapped = FALSE

\* ----------------------------------------- the contract calls, in sequence
\* A caller holding both backends makes the same call on each; r and m are
\* the outcomes on RedisStorage and on InMemoryStorage.
Called(name, user_id, num, r, m) ==
    /\ op' = name /\ arg_user' = user_id /\ arg_num' = num
    /\ ret_redis' = r.ret /\ redis' = r.db
    /\ ret_mem' = m.ret /\ data' = m.data
    /\ UNCHANGED conc_vars

Added(user_id, field, num) ==
    /\ sum_added' = [sum_added EXCEPT ![user_id][field] = @ + num]
    /\ written' = [written EXCEPT ![user_id] = @ \cup {field}]
    /\ neg_added' = (neg_added \/ num < 0)

InBounds(user_id, field, num) ==
    /\ sum_added[user_id][field] + num <= MaxTotal
    /\ sum_added[user_id][field] + num >= -MaxDebt

user_exists(user_id) ==
    /\ Called("user_exists", user_id, 0,
              RedisStorage_user_exists(user_id),
              InMemoryStorage_user_exists(user_id))
    /\ UNCHANGED hist_vars

get_user_points_used(user_id) ==
    /\ Called("get_user_points_used", user_id, 0,
              RedisStorage_get_user_points_used(user_id),
              InMemoryStorage_get_user_points_used(user_id))
    /\ UNCHANGED hist_vars

add_user_points_used(user_id, num) ==
    /\ InBounds(user_id, POINTS_USED, num)
    /\ Called("add_user_points_used", user_id, num,
              RedisStorage_add_user_points_used(user_id, num),
              InMemoryStorage_add_user_points_used(user_id, num))
    /\ Added(user_id, POINTS_USED, num)

get_user_points_received(user_id) ==
    /\ Called("get_user_points_received", user_id, 0,
              RedisStorage_get_user_points_received(user_id),
              InMemoryStorage_get_user_points_received(user_id))
    /\ UNCHANGED hist_vars

add_user_points_received(user_id, num) ==
    /\ InBounds(user_id, POINTS_RECEIVED, num)
    /\ Called("add_user_points_received", user_id, num,
              RedisStorage_add_user_points_received(user_id, num),
              InMemoryStorage_add_user_points_received(user_id, num))
    /\ Added(user_id, POINTS_RECEIVED, num)

get_users_and_scores ==
    /\ Called("get_users_and_scores", "", 0,
              RedisStorage_get_users_and_scores,
              InMemoryStorage_get_users_and_scores)
    /\ UNCHANGED hist_vars

Next ==
    \/ \E user_id \in Users : user_exists(user_id)
    \/ \E user_id \in Users : get_user_points_used(user_id)
    \/ \E user_id \in Users, num \in Amounts : add_user_points_used(user_id, num)
    \/ \E user_id \in Users, num \in NegAmounts :
            add_user_points_used(user_id, num)
    \/ \E user_id \in Users : get_user_points_received(user_id)
    \/ \E user_id \in Users, num \in Amounts :
            add_user_points_received(user_id, num)
    \/ \E user_id \in Users, num \in NegAmounts :
            add_user_points_received(user_id, num)
    \/ get_users_and_scores

Spec == Init /\ [][Next]_vars

\* ------------------------------------------- concurrent callers on Redis
\* Each caller calls RedisStorage.add_user_points_used(target, 1) CallsEach
\* times.  A call is one HINCRBY command: the caller sends it, the server
\* executes it (commands are executed one at a time), the reply returns.
InitConc ==
    /\ FreshStores
    /\ NoHistory
    /\ op = "none" /\ arg_user = "" /\ arg_num = 0
    /\ ret_redis = NoCall /\ ret_mem = NoCall
    /\ target \in Users
    /\ pc = [c \in Callers |-> "ready"]
    /\ calls_done = [c \in Callers |-> 0]
    /\ locals = [c \in Callers |-> 0]
    /\ overlapped = FALSE

ConcCall(c) ==
    /\ pc[c] = "ready"
    /\ pc' = [pc EXCEPT ![c] = "sent"]
    /\ UNCHANGED <<store_vars, call_vars, hist_vars, target, calls_done,
                   locals, overlapped>>

ConcServe(c) ==
    /\ pc[c] = "sent"
    /\ redis' = RedisStorage_add_user_points_used(target, 1).db
    /\ pc' = [pc EXCEPT ![c] = "replied"]
    /\ UNCHANGED <<data, call_vars, hist_vars, target, calls_done,
                   locals, overlapped>>

ConcReturn(c) ==
    /\ pc[c] = "replied"
    /\ calls_done' = [calls_done EXCEPT ![c] = @ + 1]
    /\ pc' = [pc EXCEPT ![c] =
                IF calls_done[c] + 1 = CallsEach THEN "done" ELSE "ready"]
    /\ UNCHANGED <<store_vars, call_vars, hist_vars, target,
                   locals, overlapped>>

NextConc ==
    \/ \E c \in Callers : ConcCall(c)
    \/ \E c \in Callers : ConcServe(c)
    \/ \E c \in Callers : ConcReturn(c)

SpecConc == InitConc /\ [][NextConc]_vars

\* ---------------------------------- concurrent threads on InMemoryStorage
\* Each thread calls InMemoryStorage.add_user_points_used(target, 1) AddsEach
\* times.  Nothing synchronises the threads, so another thread can run
\* between the statements of the method and between the read and the write
\* of line 131.

\* Line 130: user_data = self._data.setdefault(user_id, {}).  user_data is
\* the record held in _data, so no copy of it is kept.
InMemoryStorage_add_user_points_used_setdefault(user_id) ==
    dict_setdefault(data, user_id, EmptyDict)

\* Line 131, right-hand side: user_data.get(self.POINTS_USED, 0).
InMemoryStorage_add_user_points_used_load(user_id) ==
    dict_get(data[user_id], POINTS_USED, 0)

\* Mutant: the sum is stored in the other field.
InMemoryStorage_add_user_points_used_store_received(user_id, value) ==
    DictSet(data, user_id, DictSet(data[user_id], POINTS_RECEIVED, value))

\* Line 131, assignment: user_data[self.POINTS_USED] = <the sum>.
InMemoryStorage_add_user_points_used_store(user_id, value) ==
    DictSet(data, user_id, DictSet(data[user_id], POINTS_USED, value))

InitMem ==
    /\ FreshStores
    /\ NoHistory
    /\ op = "none" /\ arg_user = "" /\ arg_num = 0
    /\ ret_redis = NoCall /\ ret_mem = NoCall
    /\ target \in Users
    /\ pc = [t \in Threads |-> "ready"]
    /\ calls_done = [t \in Threads |-> 0]
    /\ locals = [t \in Threads |-> 0]
    /\ overlapped = FALSE

MemSetdefault(t) ==
    /\ pc[t] = "ready"
    /\ data' = InMemoryStorage_add_user_points_used_setdefault(target)
    /\ pc' = [pc EXCEPT ![t] = "load"]
    /\ UNCHANGED <<redis, call_vars, hist_vars, target, calls_done, locals,
                   overlapped>>

MemLoad(t) ==
    /\ pc[t] = "load"
    /\ locals' = [locals EXCEPT
                    ![t] = InMemoryStorage_add_user_points_used_load(target)]
    /\ overlapped' = (overlapped \/ \E o \in Threads \ {t} : pc[o] = "store")
    /\ pc' = [pc EXCEPT ![t] = "store"]
    /\ UNCHANGED <<store_vars, call_vars, hist_vars, target, calls_done>>

MemStore(t) ==
    /\ pc[t] = "store"
    /\ data' = InMemoryStorage_add_user_points_used_store(target, locals[t] + 1)
    /\ calls_done' = [calls_done EXCEPT ![t] = @ + 1]
    /\ pc' = [pc EXCEPT ![t] =
                IF calls_done[t] + 1 = AddsEach THEN "done" ELSE "ready"]
    /\ UNCHANGED <<redis, call_vars, hist_vars, target, locals, overlapped>>

NextMem ==
    \/ \E t \in Threads : MemSetdefault(t)
    \/ \E t \in Threads : MemLoad(t)
    \/ \E t \in Threads : MemStore(t)

SpecMem == InitMem /\ [][NextMem]_vars

\* ------------------------------ RedisStorage, one Redis command at a time
\* Clients share the server.  A method that sends several commands is one
\* step per command, so other clients' commands can come in between:
\* _create_user_entry sends HMSET then SADD; get_users_and_scores sends
\* SMEMBERS and then one HGET per member.  The six contract methods never
\* call _create_user_entry, the only writer of USERS_LIST; here a client may
\* call it directly.

\* Mutant: the two commands of _create_user_entry in the other order.
RedisStorage_create_user_entry_first_sadd(user_id) ==
    SADD(redis, USERS_LIST_KEY, user_id)

\* Line 79.
RedisStorage_create_user_entry_first(user_id) ==
    HMSET(redis, user_id, [f \in {POINTS_USED, POINTS_RECEIVED} |-> 0])

\* Line 80.
RedisStorage_create_user_entry_second(user_id) ==
    SADD(redis, USERS_LIST_KEY, user_id)

\* The local variables of a client that is in no call.
NoLocals == [user |-> "", users |-> {}, scores |-> <<>>]

InitCmd ==
    /\ FreshStores
    /\ NoHistory
    /\ op = "none" /\ arg_user = "" /\ arg_num = 0
    /\ ret_redis = NoCall /\ ret_mem = NoCall
    /\ target = ""
    /\ pc = [c \in Clients |-> "ready"]
    /\ calls_done = [c \in Clients |-> 0]
    /\ locals = [c \in Clients |-> NoLocals]
    /\ overlapped = FALSE

cmd_frame == <<data, call_vars, hist_vars, target, calls_done, overlapped>>

\* _create_user_entry(user_id), line 79.
CmdCreateFirst(c, user_id) ==
    /\ pc[c] = "ready"
    /\ redis' = RedisStorage_create_user_entry_first(user_id)
    /\ locals' = [locals EXCEPT ![c].user = user_id]
    /\ pc' = [pc EXCEPT ![c] = "create"]
    /\ UNCHANGED cmd_frame

\* _create_user_entry(user_id), line 80.
CmdCreateSecond(c) ==
    /\ pc[c] = "create"
    /\ redis' = RedisStorage_create_user_entry_second(locals[c].user)
    /\ locals' = [locals EXCEPT ![c] = NoLocals]
    /\ pc' = [pc EXCEPT ![c] = "ready"]
    /\ UNCHANGED cmd_frame

\* add_user_points_received(user_id, 1): one HINCRBY.
CmdAddReceived(c, user_id) ==
    /\ pc[c] = "ready"
    /\ RedisCounter(user_id, POINTS_RECEIVED) < MaxTotal
    /\ redis' = RedisStorage_add_user_points_received(user_id, 1).db
    /\ UNCHANGED <<pc, locals, cmd_frame>>

\* get_users_and_scores, line 104.
CmdEnumerate(c) ==
    /\ pc[c] = "ready"
    /\ locals' = [locals EXCEPT
                    ![c].users = SMEMBERS(redis, USERS_LIST_KEY)]
    /\ pc' = [pc EXCEPT ![c] = "scores"]
    /\ UNCHANGED <<redis, cmd_frame>>

\* get_users_and_scores, line 105: the read for the next user; the method
\* returns after the last one, or raises when the read raises.
CmdNextScore(c) ==
    /\ pc[c] = "scores"
    /\ IF locals[c].users = {}
       THEN /\ locals' = [locals EXCEPT ![c] = NoLocals]
            /\ pc' = [pc EXCEPT ![c] = "ready"]
       ELSE LET user == CHOOSE u \in locals[c].users : TRUE
                r == RedisStorage_get_user_points_received(user).ret
            IN IF Raised(r)
               THEN /\ locals' = [locals EXCEPT ![c] = NoLocals]
                    /\ pc' = [pc EXCEPT ![c] = "ready"]
               ELSE /\ locals' = [locals EXCEPT
                            ![c].users = @ \ {user},
                            ![c].scores = Append(@, <<user, r.val>>)]
                    /\ pc' = pc
    /\ UNCHANGED <<redis, cmd_frame>>

NextCmd ==
    \/ \E c \in Clients, user_id \in Users : CmdCreateFirst(c, user_id)
    \/ \E c \in Clients : CmdCreateSecond(c)
    \/ \E c \in Clients, user_id \in Users : CmdAddReceived(c, user_id)
    \/ \E c \in Clients : CmdEnumerate(c)
    \/ \E c \in Clients : CmdNextScore(c)

SpecCmd == InitCmd /\ [][NextCmd]_vars

\* ================================================================ claims
IsInt(r, n) == r.kind = "int" /\ r.val = n
IsKeyError(r) == r.kind = "raise" /\ r.val = "KeyError"
Getters == {"get_user_points_used", "get_user_points_received"}
Adders == {"add_user_points_used", "add_user_points_received"}

\* C1: on RedisStorage, get_user_points_used and get_user_points_received
\* for a user_id that has never been written return 0 and raise nothing.
C1_UnseenReadReturnsZero ==
    (op \in Getters /\ written[arg_user] = {}) => IsInt(ret_redis, 0)

\* C2: on RedisStorage, once an add has been applied to a user_id, that
\* user_id is a member of USERS_LIST, its record has both counters, and
\* get_users_and_scores contains an entry for it.
C2_FirstAddRegistersUser ==
    \A u \in Users :
        written[u] # {} =>
            /\ u \in SMEMBERS(redis, USERS_LIST_KEY)
            /\ u \in DOMAIN redis.hash
            /\ DOMAIN redis.hash[u] = Fields
            /\ RedisStorage_get_users_and_scores.ret.kind = "list"
            /\ EntriesFor(RedisStorage_get_users_and_scores.ret.val, u) # {}

\* C3: on both backends, once add_user_points_used has been applied to a
\* user_id, get_user_points_used(user_id) returns the sum of all the amounts
\* added to it so far and user_exists(user_id) is true.  (Stated for every
\* amount; the amounts n >= 0 of the claim are among them.)
C3_UsedIsSumOfAdds ==
    /\ (op = "get_user_points_used" /\ POINTS_USED \in written[arg_user]) =>
            /\ IsInt(ret_redis, sum_added[arg_user][POINTS_USED])
            /\ IsInt(ret_mem, sum_added[arg_user][POINTS_USED])
    /\ (op = "user_exists" /\ POINTS_USED \in written[arg_user]) =>
            /\ Truthy(ret_redis)
            /\ Truthy(ret_mem)

\* C3 witness: a read of a total that took several non-negative adds.
C3_Witness ==
    /\ op = "get_user_points_used"
    /\ ~neg_added
    /\ sum_added[arg_user][POINTS_USED] = MaxTotal
    /\ IsInt(ret_redis, MaxTotal)
    /\ IsInt(ret_mem, MaxTotal)
    /\ written[arg_user] = {POINTS_USED}

\* C4: on RedisStorage, when NumCallers concurrent callers have each
\* finished CallsEach calls of add_user_points_used(target, 1), the
\* points_used of target is NumCallers * CallsEach.
AllDone == \A c \in Callers : pc[c] = "done"
C4_NoLostIncrement ==
    AllDone => IsInt(RedisStorage_get_user_points_used(target).ret,
                     NumCallers * CallsEach)

\* C4 witness: every caller has finished, after interleaved calls.
C4_Witness ==
    /\ AllDone
    /\ \A c \in Callers : calls_done[c] = CallsEach
    /\ RedisCounter(target, POINTS_USED) = NumCallers * CallsEach

\* C5: on either backend, once an add has been applied a second time to the
\* same user_id, get_users_and_scores contains exactly one entry for that
\* user_id, and it never contains two entries for one user_id.
ListedOnce(r, u) ==
    r.kind = "list" /\ Cardinality(EntriesFor(r.val, u)) = 1
NeverListedTwice(r) ==
    r.kind = "list" => \A u \in Users : Cardinality(EntriesFor(r.val, u)) <= 1
C5_TwiceAddedListedOnce ==
    [][ /\ (op' \in Adders /\ written[arg_user'] # {}) =>
                /\ ListedOnce(RedisStorage_get_users_and_scores.ret', arg_user')
                /\ ListedOnce(InMemoryStorage_get_users_and_scores.ret',
                              arg_user')
        /\ NeverListedTwice(RedisStorage_get_users_and_scores.ret')
        /\ NeverListedTwice(InMemoryStorage_get_users_and_scores.ret')
      ]_vars

\* C6: for every sequential series of contract calls from fresh stores,
\* RedisStorage and InMemoryStorage give each call the same outcome: both
\* raise, or both return the same value.
NumVal(r) == IF r.kind = "bool" THEN (IF r.val THEN 1 ELSE 0) ELSE r.val
\* Python's ==, a list being compared regardless of order (the order of
\* get_users_and_scores is unspecified).
PyEq(a, b) ==
    CASE a.kind \in {"int", "bool"} /\ b.kind \in {"int", "bool"} ->
            NumVal(a) = NumVal(b)
      [] a.kind = "list" /\ b.kind = "list" ->
            /\ Len(a.val) = Len(b.val)
            /\ \A i \in 1..Len(a.val) :
                 Cardinality({j \in 1..Len(a.val) : a.val[j] = a.val[i]})
                   = Cardinality({j \in 1..Len(b.val) : b.val[j] = a.val[i]})
      [] OTHER -> a.kind = b.kind /\ a.kind \in {"None", "nocall"}
SameOutcome(a, b) ==
    IF Raised(a) \/ Raised(b) THEN Raised(a) /\ Raised(b) ELSE PyEq(a, b)
C6_BackendsAgree == SameOutcome(ret_redis, ret_mem)

\* C7 as claimed: over any sequence of contract operations, no counter of
\* either backend decreases from one state to the next, and every counter
\* is non-negative.
NoDecrease ==
    \A u \in Users, f \in Fields :
        /\ RedisCounter(u, f)' >= RedisCounter(u, f)
        /\ MemCounter(u, f)' >= MemCounter(u, f)
NonNegative ==
    \A u \in Users, f \in Fields :
        RedisCounter(u, f) >= 0 /\ MemCounter(u, f) >= 0
C7_CountersNeverDecrease == [][NoDecrease /\ NonNegative']_vars

\* C7 amended: an operation whose amount is not negative (a read, or an add
\* with num >= 0) decreases no counter of either backend, and while no add
\* has been given a negative amount every counter is non-negative.
C7_NonNegativeAddsNeverDecrease ==
    [][ /\ arg_num' >= 0 => NoDecrease
        /\ ~neg_added' => NonNegative'
      ]_vars

\* C7 witness: adds of positive amounts have raised both counters of a user.
C7_Witness ==
    /\ op = "add_user_points_received"
    /\ arg_num > 0
    /\ ~neg_added
    /\ RedisCounter(arg_user, POINTS_RECEIVED) = MaxTotal
    /\ MemCounter(arg_user, POINTS_RECEIVED) = MaxTotal
    /\ RedisCounter(arg_user, POINTS_USED) > 0

\* C8: on either backend, for a user written only through
\* add_user_points_used, get_user_points_received returns 0 and does not
\* fail; and likewise get_user_points_used for a user written only through
\* add_user_points_received.
C8_UnwrittenCounterReadsZero ==
    /\ (op = "get_user_points_received" /\ written[arg_user] = {POINTS_USED})
            => IsInt(ret_redis, 0) /\ IsInt(ret_mem, 0)
    /\ (op = "get_user_points_used" /\ written[arg_user] = {POINTS_RECEIVED})
            => IsInt(ret_redis, 0) /\ IsInt(ret_mem, 0)

\* C9: on InMemoryStorage, whenever some user has been written only
\* through add_user_points_used, get_users_and_scores raises KeyError
\* instead of returning a list.
C9_EnumerateFailsOnMissingField ==
    (op = "get_users_and_scores" /\ \E u \in Users : written[u] = {POINTS_USED})
        => IsKeyError(ret_mem)

\* C9 witness: the call failed with one user complete and one without the
\* received-points field.
C9_Witness ==
    /\ op = "get_users_and_scores"
    /\ \E u \in Users : written[u] = {POINTS_USED}
    /\ \E u \in Users : written[u] = Fields
    /\ IsKeyError(ret_mem)

C13_UntouchedUserDoesNotExist ==
    (op = "user_exists" /\ written[arg_user] = {}) =>
        (~Truthy(ret_redis) /\ ~Truthy(ret_mem))

\* C13 witness: the other user exists, the user asked about does not.
C13_Witness ==
    /\ op = "user_exists"
    /\ written[arg_user] = {}
    /\ \E u \in Users : written[u] = Fields
    /\ IsInt(ret_redis, 0)
    /\ ret_mem = PyBool(FALSE)

\* C15: on InMemoryStorage, when every stored user has a received-points
\* field, get_users_and_scores returns exactly one pair per key of _data,
\* whose score is what get_user_points_received returns for that user.
AllHaveReceived == \A k \in DOMAIN data : POINTS_RECEIVED \in DOMAIN data[k]
C15_EnumerateListsEveryUser ==
    (op = "get_users_and_scores" /\ AllHaveReceived) =>
        /\ ret_mem.kind = "list"
        /\ Len(ret_mem.val) = Cardinality(DOMAIN data)
        /\ \A i \in 1..Len(ret_mem.val) : ret_mem.val[i][1] \in DOMAIN data
        /\ \A k \in DOMAIN data :
              /\ Cardinality(EntriesFor(ret_mem.val, k)) = 1
              /\ \A i \in EntriesFor(ret_mem.val, k) :
                    IsInt(InMemoryStorage_get_user_points_received(k).ret,
                          ret_mem.val[i][2])

\* C15 witness: two users listed with different scores.
C15_Witness ==
    /\ op = "get_users_and_scores"
    /\ DOMAIN data = Users
    /\ AllHaveReceived
    /\ ret_mem.kind = "list"
    /\ Len(ret_mem.val) = Cardinality(Users)
    /\ \E i, j \in 1..Len(ret_mem.val) : ret_mem.val[i][2] # ret_mem.val[j][2]
    /\ \E k \in DOMAIN data :
          MemCounter(k, POINTS_USED) # MemCounter(k, POINTS_RECEIVED)

\* C16: on both backends add_user_points_used(u, n) leaves u's
\* points_received and every other user's record (its existence and both
\* counters) as they were, and add_user_points_received(u, n) leaves u's
\* points_used and every other user's record as they were.
\* A field of a record: whether it is there, and its value.
RedisField(u, f) ==
    IF u \in DOMAIN redis.hash /\ f \in DOMAIN redis.hash[u]
    THEN <<TRUE, redis.hash[u][f]>> ELSE <<FALSE, <<>>>>
MemField(u, f) ==
    IF u \in DOMAIN data /\ f \in DOMAIN data[u]
    THEN <<TRUE, data[u][f]>> ELSE <<FALSE, 0>>
FieldOf(name) ==
    IF name = "add_user_points_used" THEN POINTS_USED ELSE POINTS_RECEIVED
C16_AddTouchesOneCounter ==
    [][ op' \in Adders =>
          /\ \A u \in Users, f \in Fields :
                (u # arg_user' \/ f # FieldOf(op')) =>
                    /\ RedisField(u, f)' = RedisField(u, f)
                    /\ MemField(u, f)' = MemField(u, f)
          /\ \A u \in Users \ {arg_user'} :
                /\ (u \in DOMAIN redis.hash)' = (u \in DOMAIN redis.hash)
                /\ (u \in DOMAIN data)' = (u \in DOMAIN data)
          /\ redis.set' = redis.set
      ]_vars

\* C16 witness: an add to one counter while the three others hold values.
C16_Witness ==
    /\ op = "add_user_points_used"
    /\ arg_num > 0
    /\ \A u \in Users : written[u] = Fields
    /\ \A u \in Users \ {arg_user} : MemCounter(u, POINTS_USED) > 0
    /\ MemCounter(arg_user, POINTS_RECEIVED) > 0
    /\ RedisCounter(arg_user, POINTS_RECEIVED) > 0

\* C17: on both backends user_exists, get_user_points_used,
\* get_user_points_received and get_users_and_scores leave the store as it
\* was, whether they return or raise: the existing users, every counter and
\* USERS_LIST are the same after the call as before it.
Readers ==
    {"user_exists", "get_user_points_used", "get_user_points_received",
     "get_users_and_scores"}
C17_ReadsChangeNothing ==
    [][ op' \in Readers =>
          /\ DOMAIN redis.hash' = DOMAIN redis.hash
          /\ DOMAIN data' = DOMAIN data
          /\ \A u \in Users, f \in Fields :
                /\ RedisField(u, f)' = RedisField(u, f)
                /\ MemField(u, f)' = MemField(u, f)
          /\ SMEMBERS(redis, USERS_LIST_KEY)' = SMEMBERS(redis, USERS_LIST_KEY)
      ]_vars

\* C17 witness: a read that raised on both backends, with a user stored.
C17_Witness ==
    /\ op \in Readers
    /\ Raised(ret_redis)
    /\ Raised(ret_mem)
    /\ DOMAIN data # {}
    /\ DOMAIN redis.hash # {}

\* The three ways of adding a and b to u's points_received, the first add of
\* "a then b" being the step taken (a call add_user_points_received(u, a))
\* and the others starting from the state before it: all leave
\* get_user_points_received(u) returning v, on both backends.
AllAmounts == Amounts \cup NegAmounts
AllLeave(u, a, b, v) ==
    \A r_b \in {RedisStorage_add_user_points_received_on(redis, u, b)} :
    \A r_ba \in {RedisStorage_add_user_points_received_on(r_b, u, a)} :
    \A r_ab \in {RedisStorage_add_user_points_received_on(redis', u, b)} :
    \A r_sum \in {RedisStorage_add_user_points_received_on(redis, u, a + b)} :
    \A m_b \in {InMemoryStorage_add_user_points_received_on(data, u, b)} :
    \A m_ba \in {InMemoryStorage_add_user_points_received_on(m_b, u, a)} :
    \A m_ab \in {InMemoryStorage_add_user_points_received_on(data', u, b)} :
    \A m_sum \in {InMemoryStorage_add_user_points_received_on(data, u, a + b)} :
        /\ IsInt(RedisStorage_get_user_points_received_on(r_ab, u), v)
        /\ IsInt(RedisStorage_get_user_points_received_on(r_ba, u), v)
        /\ IsInt(RedisStorage_get_user_points_received_on(r_sum, u), v)
        /\ IsInt(InMemoryStorage_get_user_points_received_on(m_ab, u), v)
        /\ IsInt(InMemoryStorage_get_user_points_received_on(m_ba, u), v)
        /\ IsInt(InMemoryStorage_get_user_points_received_on(m_sum, u), v)

\* C14: the points_received total depends on the amounts added, not on
\* their order or grouping: started from the same state, add (u, a) then
\* (u, b), add (u, b) then (u, a), and a single add (u, a + b) all leave
\* get_user_points_received(u) with one and the same value, a + b on top of
\* the total of the state they started from (a + b itself from a store
\* where u's total is 0, as from a fresh one).
C14_AddsCommute ==
    [][ op' = "add_user_points_received" =>
          \A b \in AllAmounts :
              AllLeave(arg_user', arg_num', b,
                       sum_added[arg_user'][POINTS_RECEIVED] + arg_num' + b)
      ]_vars

\* C14 witness: an amount added to a total that earlier adds built up.
C14_Witness ==
    /\ op = "add_user_points_received"
    /\ arg_num = MaxNum
    /\ sum_added[arg_user][POINTS_RECEIVED] = MaxTotal
    /\ IsInt(RedisStorage_get_user_points_received(arg_user).ret, MaxTotal)
    /\ IsInt(InMemoryStorage_get_user_points_received(arg_user).ret, MaxTotal)

\* C11: on InMemoryStorage, with add_user_points_used a read followed by
\* a write, two concurrent callers' increments of the same counter need not
\* both take effect: the counter never exceeds the sum of the amounts
\* added, and once every caller has finished it is that sum exactly when no
\* two calls were between their read and their write at the same time, and
\* strictly less otherwise.  (C11_Witness is the lost update.)
RECURSIVE SumOver(_, _)
SumOver(f, S) ==
    IF S = {} THEN 0
    ELSE LET x == CHOOSE y \in S : TRUE IN f[x] + SumOver(f, S \ {x})
ThreadsDone == \A t \in Threads : pc[t] = "done"
C11_LostUpdate ==
    /\ MemCounter(target, POINTS_USED) <= SumOver(calls_done, Threads)
    /\ ThreadsDone =>
          /\ ~overlapped =>
                MemCounter(target, POINTS_USED) = SumOver(calls_done, Threads)
          /\ overlapped =>
                MemCounter(target, POINTS_USED) < SumOver(calls_done, Threads)

\* C11 witness: every caller has finished and the counter is less than the
\* sum of the amounts added.
C11_Witness ==
    /\ ThreadsDone
    /\ SumOver(calls_done, Threads) = NumThreads * AddsEach
    /\ MemCounter(target, POINTS_USED) < NumThreads * AddsEach

\* C12: on RedisStorage, in every reachable state, the states between the
\* commands of one method included, every member of USERS_LIST has a user
\* record in the store.
C12_ListedUsersHaveRecords ==
    \A u \in SMEMBERS(redis, USERS_LIST_KEY) : u \in DOMAIN redis.hash

\* C12 witness: one user is listed while a client is between the two
\* commands of _create_user_entry for another user, and a third call is
\* part-way through its reads.
C12_Witness ==
    /\ \E u \in Users : u \in SMEMBERS(redis, USERS_LIST_KEY)
    /\ \E c \in Clients :
          /\ pc[c] = "create"
          /\ locals[c].user \notin SMEMBERS(redis, USERS_LIST_KEY)
          /\ locals[c].user \in DOMAIN redis.hash
    /\ \E c \in Clients : pc[c] = "scores" /\ locals[c].users # {}

====
